---------------------------- MODULE Spec2Model ----------------------------
(***************************************************************************)
(* Model of app.py: the /remediate-array handler that scans ABAP code      *)
(* units for uses of the obsolete table J_1BBRANCH and suggests the CDS    *)
(* view P_BusinessPlace.                                                   *)
(*                                                                         *)
(* A Python str is a sequence of one-character strings; offsets are        *)
(* 0-based as in Python, so the character at offset p of t is t[p + 1]     *)
(* and the slice t[s:e] is SubSeq(t, s + 1, e).                            *)
(***************************************************************************)
EXTENDS Integers, Sequences, FiniteSets, TLC

(***************************************************************************)
(* Characters                                                              *)
(***************************************************************************)
LowerCase == <<"a", "b", "c", "d", "e", "f", "g", "h", "i", "j", "k", "l", "m",
               "n", "o", "p", "q", "r", "s", "t", "u", "v", "w", "x", "y", "z">>

UpperCase == <<"A", "B", "C", "D", "E", "F", "G", "H", "I", "J", "K", "L", "M",
               "N", "O", "P", "Q", "R", "S", "T", "U", "V", "W", "X", "Y", "Z">>

Digits == {"0", "1", "2", "3", "4", "5", "6", "7", "8", "9"}

Range(f) == {f[i] : i \in DOMAIN f}

LowerSet == Range(LowerCase)

ToUpper == [c \in LowerSet |-> UpperCase[CHOOSE i \in DOMAIN LowerCase : LowerCase[i] = c]]

\* str.upper() on one character (ASCII letters; every other character of the
\* model's alphabet is its own upper case).
UpperChar(c) == IF c \in LowerSet THEN ToUpper[c] ELSE c

\* str.upper()
Upper(s) == [i \in 1..Len(s) |-> UpperChar(s[i])]

\* \w : letters, digits, underscore
WordChars == Range(LowerCase) \cup Range(UpperCase) \cup Digits \cup {"_"}

IsWord(c) == c \in WordChars

\* \s, and the characters str.strip() removes (the ASCII ones TLA+ can write)
SpaceChars == {" ", "\t", "\n", "\r", "\f"}

IsSpace(c) == c \in SpaceChars

\* text[s:e]
Slice(t, s, e) == SubSeq(t, s + 1, e)

(***************************************************************************)
(* Literals of the program                                                 *)
(***************************************************************************)
KwSELECT == <<"S", "E", "L", "E", "C", "T">>
KwFROM == <<"F", "R", "O", "M">>
KwJOIN == <<"J", "O", "I", "N">>
KwTABLES == <<"T", "A", "B", "L", "E", "S">>
KwTYPE == <<"T", "Y", "P", "E">>
KwLIKE == <<"L", "I", "K", "E">>
KwTABLE == <<"T", "A", "B", "L", "E">>
KwOF == <<"O", "F">>

J_1BBRANCH == <<"J", "_", "1", "B", "B", "R", "A", "N", "C", "H">>
P_BusinessPlace == <<"P", "_", "B", "u", "s", "i", "n", "e", "s", "s", "P", "l", "a", "c", "e">>

\* OBSOLETE_TABLE_MAP = {"J_1BBRANCH": "P_BusinessPlace"}
OBSOLETE_TABLE_MAP == (J_1BBRANCH :> P_BusinessPlace)

NL == <<"\n">>

\* Optional[str]
None == [isNone |-> TRUE, val |-> <<>>]
Some(s) == [isNone |-> FALSE, val |-> s]

(***************************************************************************)
(* TABLE_USAGE_RE                                                          *)
(***************************************************************************)
\* \b at offset p of t
WordBoundary(t, p) ==
    LET before == p > 0 /\ IsWord(t[p])
        after  == p < Len(t) /\ IsWord(t[p + 1])
    IN  before # after

\* A literal of the pattern at offset p, under re.IGNORECASE.  lit is upper case.
LitAt(t, p, lit) ==
    /\ p + Len(lit) <= Len(t)
    /\ \A i \in 1..Len(lit) : UpperChar(t[p + i]) = lit[i]

\* \s+ at offset p: the offset after the whitespace run, p itself when there is
\* none (no match).  Every \s+ of the pattern is followed by a word character
\* (T, O or \w), so only the maximal run can lead to a match.
SpacesEnd(t, p) ==
    CHOOSE q \in p..Len(t) :
        /\ \A r \in p..(q - 1) : IsSpace(t[r + 1])
        /\ q = Len(t) \/ ~IsSpace(t[q + 1])

\* (?P<table>\w+) at offset p: the offset after the maximal run of word
\* characters, p itself when there is none (no match).
WordEnd(t, p) ==
    CHOOSE q \in p..Len(t) :
        /\ \A r \in p..(q - 1) : IsWord(t[r + 1])
        /\ q = Len(t) \/ ~IsWord(t[q + 1])

NoEnd == 0 - 1

\* keyword \b \s+ at offset p: the offset after the whitespace, NoEnd if no match
KwSpaces(t, p, kw) ==
    IF /\ LitAt(t, p, kw)
       /\ WordBoundary(t, p + Len(kw))
       /\ SpacesEnd(t, p + Len(kw)) > p + Len(kw)
    THEN SpacesEnd(t, p + Len(kw))
    ELSE NoEnd

\* literal \s+ at offset p (no \b between them)
LitSpaces(t, p, lit) ==
    IF LitAt(t, p, lit) /\ SpacesEnd(t, p + Len(lit)) > p + Len(lit)
    THEN SpacesEnd(t, p + Len(lit))
    ELSE NoEnd

\* The rest of the pattern after the keyword group ending at k: the table name.
TableFollows(t, k) == k # NoEnd /\ WordEnd(t, k) > k

\* \bFROM\b\s+ at offset q, with the table name after it
FromHere(t, q) == WordBoundary(t, q) /\ TableFollows(t, KwSpaces(t, q, KwFROM))

\* .*?\bFROM\b\s+ tried from offset q0 on, shortest first (DOTALL: any character
\* may be skipped).  A FROM that no table name follows is backtracked over.
FromAt(t, q0) ==
    IF \E q \in q0..Len(t) : FromHere(t, q)
    THEN KwSpaces(t, CHOOSE q \in q0..Len(t) :
                        FromHere(t, q) /\ \A r \in q0..(q - 1) : ~FromHere(t, r),
                  KwFROM)
    ELSE NoEnd

\* SELECT\b.*?\bFROM\b\s+
AltSelect(t, p) ==
    IF LitAt(t, p, KwSELECT) /\ WordBoundary(t, p + Len(KwSELECT))
    THEN FromAt(t, p + Len(KwSELECT))
    ELSE NoEnd

\* (TYPE|LIKE)\b\s+
TypeOrLike(t, p) ==
    IF KwSpaces(t, p, KwTYPE) # NoEnd THEN KwSpaces(t, p, KwTYPE)
    ELSE KwSpaces(t, p, KwLIKE)

\* (TYPE|LIKE)\b\s+TABLE\s+OF\s+
AltTableOf(t, p) ==
    LET a == TypeOrLike(t, p)
        b == IF a = NoEnd THEN NoEnd ELSE LitSpaces(t, a, KwTABLE)
    IN  IF b = NoEnd THEN NoEnd ELSE LitSpaces(t, b, KwOF)

\* The alternatives of (?P<keyword>...), numbered as written in the pattern.
Alt(t, p, n) ==
    CASE n = 1 -> AltSelect(t, p)
      [] n = 2 -> KwSpaces(t, p, KwJOIN)
      [] n = 3 -> KwSpaces(t, p, KwTABLES)
      [] n = 4 -> AltTableOf(t, p)
      [] n = 5 -> TypeOrLike(t, p)

AltOrderBareTypeFirst == <<1, 2, 3, 5, 4>>

\* The order the regex engine tries the alternatives in: as written.
AltOrder == <<1, 2, 3, 4, 5>>

\* The match object of an attempt at offset p, or NoMatch: the first
\* alternative, in order, that the table name follows.
NoMatch == [start |-> NoEnd, kwend |-> NoEnd, end |-> NoEnd]

MatchAt(t, p) ==
    IF ~WordBoundary(t, p) THEN NoMatch
    ELSE LET ok == {i \in DOMAIN AltOrder : TableFollows(t, Alt(t, p, AltOrder[i]))}
         IN  IF ok = {} THEN NoMatch
             ELSE LET i == CHOOSE i \in ok : \A j \in ok : i <= j
                      k == Alt(t, p, AltOrder[i])
                  IN  [start |-> p, kwend |-> k, end |-> WordEnd(t, k)]

\* pattern.search(t, pos): the match at the leftmost offset >= pos that has one
Search(t, pos) ==
    IF \E p \in pos..Len(t) : MatchAt(t, p) # NoMatch
    THEN MatchAt(t, CHOOSE p \in pos..Len(t) :
                       /\ MatchAt(t, p) # NoMatch
                       /\ \A r \in pos..(p - 1) : MatchAt(t, r) = NoMatch)
    ELSE NoMatch

\* The match object m: m.start(), m.end(), m.group("keyword"), m.group("table");
\* m.group(0) is t[start:end].
MatchObject(t, m) ==
    [start   |-> m.start,
     end     |-> m.end,
     keyword |-> Slice(t, m.start, m.kwend),
     table   |-> Slice(t, m.kwend, m.end)]

ResumeInsideMatch(m) == m.start + 1

\* Where finditer searches next after the match m (no match is empty)
Resume(m) == m.end

(***************************************************************************)
(* line_of_offset                                                          *)
(***************************************************************************)
RECURSIVE CountThrough(_, _, _, _)
\* A count that takes the character at offset hi too
CountThrough(t, c, lo, hi) ==
    IF lo > hi \/ lo >= Len(t) THEN 0
    ELSE (IF t[lo + 1] = c THEN 1 ELSE 0) + CountThrough(t, c, lo + 1, hi)

RECURSIVE Count(_, _, _, _)
\* text.count(c, lo, hi) for a one-character c and 0 <= lo: the occurrences of
\* c at the offsets lo .. min(hi, len(text)) - 1
Count(t, c, lo, hi) ==
    IF lo >= hi \/ lo >= Len(t) THEN 0
    ELSE (IF t[lo + 1] = c THEN 1 ELSE 0) + Count(t, c, lo + 1, hi)

line_of_offset(t, o) == Count(t, "\n", 0, o) + 1

(***************************************************************************)
(* migrate_table_usage                                                     *)
(***************************************************************************)
CommentHead == <<"*", " ", "T", "O", "D", "O", ":", " ">>

CommentMid ==
    <<" ", "i", "s", " ", "o", "b", "s", "o", "l", "e", "t", "e", " ", "i", "n", " ",
      "S", "/", "4", "H", "A", "N", "A", " ", "(", "S", "A", "P", " ", "N", "o", "t",
      "e", " ", "3", "4", "0", "4", "3", "9", "0", ")", ".", " ", "U", "s", "e", " ",
      "r", "e", "l", "e", "a", "s", "e", "d", " ", "C", "D", "S", " ", "v", "i", "e",
      "w", " ">>

CommentTail ==
    <<" ", "i", "n", "s", "t", "e", "a", "d", ".", " ", "A", "d", "j", "u", "s", "t",
      " ", "f", "i", "e", "l", "d", " ", "m", "a", "p", "p", "i", "n", "g", "s", " ",
      "a", "c", "c", "o", "r", "d", "i", "n", "g", "l", "y", ".">>

\* f"* TODO: {t_up} is obsolete in S/4HANA (SAP Note 3404390). "
\* f"Use released CDS view {new_table} instead. Adjust field mappings accordingly."
Comment(t_up, new_table) ==
    CommentHead \o t_up \o CommentMid \o new_table \o CommentTail

SelectStar == <<"S", "E", "L", "E", "C", "T", " ", "*", " ", "F", "R", "O", "M", " ">>

RECURSIVE LStrip(_)
LStrip(s) == IF s # <<>> /\ IsSpace(Head(s)) THEN LStrip(Tail(s)) ELSE s

RECURSIVE RStrip(_)
RStrip(s) ==
    IF s # <<>> /\ IsSpace(s[Len(s)]) THEN RStrip(SubSeq(s, 1, Len(s) - 1)) ELSE s

\* str.strip()
Strip(s) == RStrip(LStrip(s))

\* str.startswith(pre)
StartsWith(s, pre) == Len(s) >= Len(pre) /\ SubSeq(s, 1, Len(pre)) = pre

\* The pattern rf"\b{table}\b" under re.IGNORECASE at offset p of s.  table is
\* a run of word characters, so it has no character special to the regex.
NameAt(s, p, table) ==
    /\ WordBoundary(s, p)
    /\ LitAt(s, p, Upper(table))
    /\ WordBoundary(s, p + Len(table))

RECURSIVE ReSubFrom(_, _, _, _)
ReSubFrom(table, repl, s, p) ==
    IF p >= Len(s) THEN <<>>
    ELSE IF table # <<>> /\ NameAt(s, p, table)
         THEN repl \o ReSubFrom(table, repl, s, p + Len(table))
         ELSE <<s[p + 1]>> \o ReSubFrom(table, repl, s, p + 1)

RECURSIVE ReSubPlainFrom(_, _, _, _)
ReSubPlainFrom(table, repl, s, p) ==
    IF p >= Len(s) THEN <<>>
    ELSE IF table # <<>> /\ LitAt(s, p, Upper(table))
         THEN repl \o ReSubPlainFrom(table, repl, s, p + Len(table))
         ELSE <<s[p + 1]>> \o ReSubPlainFrom(table, repl, s, p + 1)

\* The substitution with the pattern table instead of \btable\b
ReSubNoBoundary(table, repl, s) == ReSubPlainFrom(table, repl, s, 0)

\* re.sub(rf"\b{table}\b", repl, s, flags=re.IGNORECASE)
ReSub(table, repl, s) == ReSubFrom(table, repl, s, 0)

\* The test without strip()
IsSelectKeywordNoStrip(keyword) == StartsWith(Upper(keyword), KwSELECT)

\* if keyword.strip().upper().startswith("SELECT")
IsSelectKeyword(keyword) == StartsWith(Upper(Strip(keyword)), KwSELECT)

\* The statement line of the suggestion, for a table in the registry
RewrittenStatement(keyword, table, new_table) ==
    IF IsSelectKeyword(keyword)
    THEN SelectStar \o new_table
    ELSE ReSub(table, new_table, keyword \o table)

\* A lookup that forgets table.upper()
LookupKeyCaseSensitive(table) == table

\* A lookup that accepts any name containing a key of the registry
LookupKeyContaining(table) ==
    IF \E key \in DOMAIN OBSOLETE_TABLE_MAP :
          \E i \in 0..(Len(table) - Len(key)) : LitAt(table, i, key)
    THEN CHOOSE key \in DOMAIN OBSOLETE_TABLE_MAP :
            \E i \in 0..(Len(table) - Len(key)) : LitAt(table, i, key)
    ELSE Upper(table)

\* The key looked up in OBSOLETE_TABLE_MAP
LookupKey(table) == Upper(table)

migrate_table_usage(keyword, table) ==
    LET t_up == LookupKey(table)
    IN  IF t_up \in DOMAIN OBSOLETE_TABLE_MAP
        THEN LET new_table == OBSOLETE_TABLE_MAP[t_up]
             IN  Some(RewrittenStatement(keyword, table, new_table)
                      \o NL \o Comment(t_up, new_table))
        ELSE None

(***************************************************************************)
(* scan_unit                                                               *)
(***************************************************************************)
\* "if not repl: continue"
Falsy(repl) == repl.isNone \/ repl.val = <<>>

\* One finding dict; the fields the unit's metadata and the match decide.
Finding(unit, src, m, repl) ==
    [pgm_name           |-> unit.pgm_name,
     issue_type         |-> "ObsoleteTableUsage",
     severity           |-> "warning",
     line               |-> line_of_offset(src, m.start),
     suggestion         |-> repl.val,
     original_table     |-> m.table,
     replacement_view   |-> OBSOLETE_TABLE_MAP[Upper(m.table)],
     original_statement |-> Strip(Slice(src, m.start, m.end))]

\* src = unit.code or ""
SourceOf(unit) == IF unit.code.isNone THEN <<>> ELSE unit.code.val

\* obj = unit.model_dump(); obj["j1bbranch_findings"] = findings
Dump(unit, fs) ==
    [pgm_name |-> unit.pgm_name, code |-> unit.code, j1bbranch_findings |-> fs]

(***************************************************************************)
(* Inputs: the code of a unit is a concatenation of at most MaxFrags       *)
(* fragments, or one of the longer texts of SpecialCodes.                  *)
(***************************************************************************)
MaxFrags == 3

MaxUnits == 3

SP == <<" ">>

DOT == <<".">>

\* "j_1Bbranch": the obsolete name in mixed case
MixedName == <<"j", "_", "1", "B", "b", "r", "a", "n", "c", "h">>

Frags ==
    { KwTYPE \o SP,                    \* "TYPE "
      KwTABLE \o SP \o KwOF \o SP,     \* "TABLE OF "
      J_1BBRANCH,
      MixedName,
      KwSELECT \o <<" ", "*", " ">>,   \* "SELECT * "
      KwFROM \o SP,                    \* "FROM "
      KwJOIN \o SP,                    \* "JOIN "
      KwTABLES \o SP,                  \* "TABLES "
      <<"l", "i", "k", "e", "\t">>,    \* "like\t"
      NL,
      DOT,
      <<"X">> }

RECURSIVE FragCodes(_)
FragCodes(n) ==
    IF n = 0 THEN {<<>>}
    ELSE LET shorter == FragCodes(n - 1)
         IN  shorter \cup {c \o f : c \in shorter, f \in Frags}

\* "DATA: lt_tab TYPE TABLE OF J_1BBRANCH.\nSELECT * FROM J_1BBRANCH WHERE bukrs = '1000'."
ExampleCode ==
    <<"D", "A", "T", "A", ":", " ", "l", "t", "_", "t", "a", "b", " ">>
    \o KwTYPE \o SP \o KwTABLE \o SP \o KwOF \o SP \o J_1BBRANCH \o DOT \o NL
    \o KwSELECT \o <<" ", "*", " ">> \o KwFROM \o SP \o J_1BBRANCH
    \o <<" ", "W", "H", "E", "R", "E", " ", "b", "u", "k", "r", "s", " ", "=", " ",
         "'", "1", "0", "0", "0", "'", ".">>

\* "select a,\nb from\nj_1bbranch join  J_1BBRANCH"
MultiLineCode ==
    <<"s", "e", "l", "e", "c", "t", " ", "a", ",", "\n", "b", " ", "f", "r", "o", "m",
      "\n", "j", "_", "1", "b", "b", "r", "a", "n", "c", "h", " ", "j", "o", "i", "n",
      " ", " ">> \o J_1BBRANCH

\* "TYPE TABLE OF T001."
OtherTableCode ==
    KwTYPE \o SP \o KwTABLE \o SP \o KwOF \o SP \o <<"T", "0", "0", "1", ".">>

\* "SELECT * TYPE X FROM J_1BBRANCH JOIN X"
NestedCode ==
    KwSELECT \o <<" ", "*", " ">> \o KwTYPE \o SP \o <<"X", " ">> \o KwFROM \o SP
    \o J_1BBRANCH \o SP \o KwJOIN \o SP \o <<"X">>

SpecialCodes == {ExampleCode, MultiLineCode, OtherTableCode, NestedCode}

Codes == FragCodes(MaxFrags) \cup SpecialCodes

\* Unit.code is Optional[str] with default "": a missing code is Some(<<>>).
UnitCodes == {None} \cup {Some(c) : c \in Codes}

BatchCodes ==
    {None, Some(<<>>), Some(ExampleCode), Some(OtherTableCode),
     Some(KwTABLES \o SP \o MixedName)}

\* The metadata of a unit is echoed, never read; pgm_name tells the units apart.
UnitOf(i, c) == [pgm_name |-> i, code |-> c]

Batches ==
    {<<UnitOf(1, c)>> : c \in UnitCodes}
    \cup UNION {{[i \in 1..n |-> UnitOf(i, f[i])] : f \in [1..n -> BatchCodes]}
                : n \in 0..MaxUnits}

(***************************************************************************)
(* Inputs of the direct calls of migrate_table_usage and line_of_offset    *)
(***************************************************************************)
MaxWs == 2

MaxLen == 4

WsChars == {" ", "\n", "\t"}

\* The whitespace runs of 1 .. n characters
WsRuns(n) == UNION {[1..k -> WsChars] : k \in 1..n}

LowerKw(kw) ==
    [i \in 1..Len(kw) |->
        IF \E j \in DOMAIN UpperCase : UpperCase[j] = kw[i]
        THEN LowerCase[CHOOSE j \in DOMAIN UpperCase : UpperCase[j] = kw[i]]
        ELSE kw[i]]

\* What m.group("keyword") can be for the JOIN, TABLES and TYPE/LIKE shapes
BareKeywords ==
    {kw \o ws : kw \in {KwJOIN, KwTABLES, KwTYPE, KwLIKE, LowerKw(KwTYPE)},
                ws \in WsRuns(MaxWs)}

\* What m.group("keyword") can be for the TYPE/LIKE TABLE OF shape
TableOfKeywords ==
    {kw \o a \o tb \o b \o KwOF \o c :
        kw \in {KwTYPE, LowerKw(KwLIKE)}, tb \in {KwTABLE, LowerKw(KwTABLE)},
        a \in WsRuns(1), b \in WsRuns(1), c \in WsRuns(1)}

\* Keywords that begin with SELECT once stripped and upper-cased
SelectKeywords ==
    {lead \o sel \o mid \o KwFROM \o ws :
        lead \in {<<>>, <<" ">>, <<"\n", "\t">>},
        sel \in {KwSELECT, LowerKw(KwSELECT), KwSELECT \o <<"E", "D">>},
        mid \in {<<" ">>, <<" ", "*", " ">>, <<" ", "a", ",", "\n", "b", " ">>,
                 SP \o J_1BBRANCH \o SP},
        ws \in WsRuns(1)}

\* "TYPE XJ_1BBRANCH ": a word that contains the obsolete name
ContainingKeyword == KwTYPE \o SP \o <<"X">> \o J_1BBRANCH \o SP

\* Keywords of no shape
OddKeywords ==
    {<<>>, ContainingKeyword, J_1BBRANCH \o SP \o KwJOIN \o SP,
     KwTYPE \o SP \o <<"X">>, <<"D", "E">> \o KwSELECT \o SP \o KwFROM \o SP}

Keywords == BareKeywords \cup TableOfKeywords \cup SelectKeywords \cup OddKeywords

Tables ==
    {J_1BBRANCH, MixedName, LowerKw(J_1BBRANCH), J_1BBRANCH \o <<"X">>,
     <<"X">> \o J_1BBRANCH, SubSeq(J_1BBRANCH, 1, 9), <<"T", "0", "0", "1">>,
     KwTABLE, <<>>}

LineTexts == UNION {[1..n -> {"a", "\n"}] : n \in 0..MaxLen} \cup {ExampleCode, MultiLineCode}

(***************************************************************************)
(* State                                                                   *)
(***************************************************************************)
VARIABLES
    pc,          \* which call is running and where it stands
    units,       \* scan_j1bbranch: the request body
    idx,         \* scan_j1bbranch: how many units the for loop has taken
    results,     \* scan_j1bbranch: results
    scanned,     \* every value scan_unit has returned to the loop so far
    src,         \* scan_unit: src
    pos,         \* scan_unit: where finditer searches next
    matches,     \* scan_unit: the match objects finditer has yielded so far
    findings,    \* scan_unit: findings
    arg_keyword, \* migrate_table_usage: keyword
    arg_table,   \* migrate_table_usage: table
    ret_repl,    \* migrate_table_usage: the value returned
    arg_text,    \* line_of_offset: text
    arg_off,     \* line_of_offset: off
    ret_line,    \* line_of_offset: the value returned
    rw_orig,     \* apply: the text passed in
    rw_edits,    \* apply: the set of edits passed in
    rw_text,     \* apply: the text spliced so far
    rw_todo      \* apply: the sorted edits not yet applied

hvars == <<units, idx, results, scanned, src, pos, matches, findings>>

mvars == <<arg_keyword, arg_table, ret_repl>>

lvars == <<arg_text, arg_off, ret_line>>

rvars == <<rw_orig, rw_edits, rw_text, rw_todo>>

vars == <<pc, hvars, mvars, lvars, rvars>>

HandlerIdle ==
    /\ units = <<>> /\ idx = 0 /\ results = <<>> /\ scanned = <<>>
    /\ src = <<>> /\ pos = 0 /\ matches = <<>> /\ findings = <<>>

MigrateIdle == arg_keyword = <<>> /\ arg_table = <<>> /\ ret_repl = None

LineIdle == arg_text = <<>> /\ arg_off = 0 /\ ret_line = 0

RewriteIdle == rw_orig = <<>> /\ rw_edits = {} /\ rw_text = <<>> /\ rw_todo = <<>>

(***************************************************************************)
(* POST /remediate-array                                                   *)
(***************************************************************************)
InitHandler ==
    /\ pc = "loop"
    /\ units \in Batches
    /\ idx = 0
    /\ results = <<>>
    /\ scanned = <<>>
    /\ src = <<>> /\ pos = 0 /\ matches = <<>> /\ findings = <<>>
    /\ MigrateIdle /\ LineIdle /\ RewriteIdle

\* "for u in units": res = scan_unit(u) is entered
ScanUnit ==
    /\ pc = "loop"
    /\ idx < Len(units)
    /\ src' = SourceOf(units[idx + 1])
    /\ pos' = 0
    /\ matches' = <<>>
    /\ findings' = <<>>
    /\ pc' = "scan"
    /\ UNCHANGED <<units, idx, results, scanned, mvars, lvars, rvars>>

\* One iteration of "for m in TABLE_USAGE_RE.finditer(src)"
ScanMatch ==
    /\ pc = "scan"
    /\ \E found \in {Search(src, pos)} :
          /\ found # NoMatch
          /\ \E m \in {MatchObject(src, found)} :
             \E repl \in {migrate_table_usage(m.keyword, m.table)} :
                /\ matches' = Append(matches, m)
                /\ findings' = IF Falsy(repl) THEN findings
                               ELSE Append(findings, Finding(units[idx + 1], src, m, repl))
          /\ pos' = Resume(found)
    /\ UNCHANGED <<pc, units, idx, results, scanned, src, mvars, lvars, rvars>>

KeepAll(r) == TRUE

\* if res["j1bbranch_findings"]
Keep(r) == r.j1bbranch_findings # <<>>

\* finditer is exhausted: scan_unit returns, and the loop keeps the result or not
ScanDone ==
    /\ pc = "scan"
    /\ Search(src, pos) = NoMatch
    /\ \E r \in {Dump(units[idx + 1], findings)} :
          /\ scanned' = Append(scanned, r)
          /\ results' = IF Keep(r) THEN Append(results, r) ELSE results
    /\ idx' = idx + 1
    /\ pc' = "loop"
    /\ UNCHANGED <<units, src, pos, matches, findings, mvars, lvars, rvars>>

\* return results
Return ==
    /\ pc = "loop"
    /\ idx = Len(units)
    /\ pc' = "returned"
    /\ UNCHANGED <<hvars, mvars, lvars, rvars>>

(***************************************************************************)
(* Direct calls of the pure functions                                      *)
(***************************************************************************)
InitMigrate ==
    /\ pc = "migrate"
    /\ arg_keyword \in Keywords
    /\ arg_table \in Tables
    /\ ret_repl = None
    /\ HandlerIdle /\ LineIdle /\ RewriteIdle

Migrate ==
    /\ pc = "migrate"
    /\ ret_repl' = migrate_table_usage(arg_keyword, arg_table)
    /\ pc' = "migrated"
    /\ UNCHANGED <<arg_keyword, arg_table, hvars, lvars, rvars>>

InitLine ==
    /\ pc = "line"
    /\ arg_text \in LineTexts
    /\ arg_off \in 0..Len(arg_text)
    /\ ret_line = 0
    /\ HandlerIdle /\ MigrateIdle /\ RewriteIdle

LineOf ==
    /\ pc = "line"
    /\ ret_line' = line_of_offset(arg_text, arg_off)
    /\ pc' = "lined"
    /\ UNCHANGED <<arg_text, arg_off, hvars, mvars, rvars>>

(***************************************************************************)
(* The Span-Ordered Rewriter, apply(text, edits), and apply_all.  The      *)
(* source file has no such function: this section follows section 4.4 of   *)
(* the specification.                                                      *)
(***************************************************************************)
MaxRwLen == 4

MaxEdits == 2

\* The texts "", "a", "ab", "abc", ...: every offset is told apart
RwTexts == {[i \in 1..n |-> LowerCase[i]] : n \in 0..MaxRwLen}

Replacements == {<<>>, <<"X">>, <<"Y", "Z">>}

EditsOf(t) ==
    {ed \in [s : 0..Len(t), e : 0..Len(t), repl : Replacements] : ed.s <= ed.e}

\* Two spans that share no offset and do not start at the same offset (the
\* order by start offset is then determined).
NonOverlapping(a, b) == a.s # b.s /\ (a.e <= b.s \/ b.e <= a.s)

RECURSIVE EditSets(_, _)
\* The sets of at most n pairwise non-overlapping edits of t
EditSets(t, n) ==
    IF n = 0 THEN {{}}
    ELSE LET fewer == EditSets(t, n - 1)
         IN  fewer \cup
             UNION {{S \cup {ed} :
                        ed \in {x \in EditsOf(t) : \A y \in S : NonOverlapping(x, y)}}
                    : S \in fewer}

\* text[:s] + replacement + text[e:]
Splice(t, ed) == Slice(t, 0, ed.s) \o ed.repl \o Slice(t, ed.e, Len(t))

RECURSIVE SortAscending(_)
SortAscending(S) ==
    IF S = {} THEN <<>>
    ELSE LET first == CHOOSE x \in S : \A y \in S : x.s <= y.s
         IN  <<first>> \o SortAscending(S \ {first})

RECURSIVE SortDescending(_)
\* The edits sorted by descending start_offset
SortDescending(S) ==
    IF S = {} THEN <<>>
    ELSE LET first == CHOOSE x \in S : \A y \in S : x.s >= y.s
         IN  <<first>> \o SortDescending(S \ {first})

InitRewrite ==
    /\ pc = "apply"
    /\ rw_orig \in RwTexts
    /\ rw_edits \in EditSets(rw_orig, MaxEdits)
    /\ rw_text = rw_orig
    /\ rw_todo = <<>>
    /\ HandlerIdle /\ MigrateIdle /\ LineIdle

\* Edits are sorted by descending start_offset
ApplySort ==
    /\ pc = "apply"
    /\ rw_todo' = SortDescending(rw_edits)
    /\ pc' = "splice"
    /\ UNCHANGED <<rw_orig, rw_edits, rw_text, hvars, mvars, lvars>>

\* and applied by direct splice one at a time, right-to-left
ApplyEdit ==
    /\ pc = "splice"
    /\ rw_todo # <<>>
    /\ rw_text' = Splice(rw_text, Head(rw_todo))
    /\ rw_todo' = Tail(rw_todo)
    /\ UNCHANGED <<pc, rw_orig, rw_edits, hvars, mvars, lvars>>

ApplyReturn ==
    /\ pc = "splice"
    /\ rw_todo = <<>>
    /\ pc' = "applied"
    /\ UNCHANGED <<rvars, hvars, mvars, lvars>>

Init == InitHandler \/ InitMigrate \/ InitLine \/ InitRewrite

Next == ScanUnit \/ ScanMatch \/ ScanDone \/ Return \/ Migrate \/ LineOf \/ ApplySort \/ ApplyEdit \/ ApplyReturn

Spec == Init /\ [][Next]_vars

(***************************************************************************)
(* Vocabulary of the properties, defined without the operators of the      *)
(* code they are about                                                     *)
(***************************************************************************)
SameLetter(a, b) ==
    \/ a = b
    \/ \E j \in DOMAIN LowerCase : {a, b} = {LowerCase[j], UpperCase[j]}

\* Two names that differ at most in letter case
SameName(a, b) == Len(a) = Len(b) /\ \A i \in 1..Len(a) : SameLetter(a[i], b[i])

\* The name is a key of the registry, compared case-insensitively
InRegistry(name) == \E key \in DOMAIN OBSOLETE_TABLE_MAP : SameName(name, key)

ReplacementOf(name) ==
    OBSOLETE_TABLE_MAP[CHOOSE key \in DOMAIN OBSOLETE_TABLE_MAP : SameName(name, key)]

NewlineOffsets(t) == {o \in 0..(Len(t) - 1) : t[o + 1] = "\n"}

\* The text up to its first newline
FirstLine(t) ==
    IF NewlineOffsets(t) = {} THEN t
    ELSE Slice(t, 0, CHOOSE o \in NewlineOffsets(t) : \A r \in NewlineOffsets(t) : o <= r)

LastNewline(t) == CHOOSE o \in NewlineOffsets(t) : \A r \in NewlineOffsets(t) : o >= r

\* The text before its last newline, and the line after it
BeforeLastLine(t) == Slice(t, 0, LastNewline(t))

LastLine(t) == Slice(t, LastNewline(t) + 1, Len(t))

TodoMarker == <<"*", " ", "T", "O", "D", "O", ":">>

SelectStarFrom == KwSELECT \o <<" ", "*", " ">> \o KwFROM \o SP

\* The matches so far that name an obsolete table
ObsoleteMatches == SelectSeq(matches, LAMBDA m : InRegistry(m.table))

\* The prefix of the keyword is whitespace, then SELECT in any letter case
BeginsWithSelect(keyword) ==
    \E k \in 0..Len(keyword) :
        /\ \A i \in 1..k : IsSpace(keyword[i])
        /\ k + Len(KwSELECT) <= Len(keyword)
        /\ SameName(Slice(keyword, k, k + Len(KwSELECT)), KwSELECT)

\* The words and whitespace runs from offset p on: word, blanks, word, blanks,
\* word, blanks, word
Tokens(t, p) ==
    LET w1 == WordEnd(t, p)
        s1 == SpacesEnd(t, w1)
        w2 == WordEnd(t, s1)
        s2 == SpacesEnd(t, w2)
        w3 == WordEnd(t, s2)
        s3 == SpacesEnd(t, w3)
    IN  <<p, w1, s1, w2, s2, w3, s3, WordEnd(t, s3)>>

\* "TYPE TABLE OF <name>" or "LIKE TABLE OF <name>" starts at offset p
TableOfAt(t, p) ==
    LET k == Tokens(t, p)
    IN  /\ \E kw \in {KwTYPE, KwLIKE} : SameName(Slice(t, k[1], k[2]), kw)
        /\ k[3] > k[2]
        /\ SameName(Slice(t, k[3], k[4]), KwTABLE)
        /\ k[5] > k[4]
        /\ SameName(Slice(t, k[5], k[6]), KwOF)
        /\ k[7] > k[6]
        /\ k[8] > k[7]

TypeTableOfName == KwTYPE \o SP \o KwTABLE \o SP \o KwOF \o SP \o J_1BBRANCH

RECURSIVE ApplyAscending(_, _, _)
\* The edits applied left to right, each at its offsets moved by what the
\* edits before it added or removed
ApplyAscending(t, todo, shift) ==
    IF todo = <<>> THEN t
    ELSE LET ed == Head(todo)
             moved == [s |-> ed.s + shift, e |-> ed.e + shift, repl |-> ed.repl]
         IN  ApplyAscending(Splice(t, moved), Tail(todo),
                            shift + Len(ed.repl) - (ed.e - ed.s))

SpanOf(m) == [s |-> m.start, e |-> m.end, repl |-> <<>>]

(***************************************************************************)
(* Properties                                                              *)
(***************************************************************************)
\* C1: migrate_table_usage returns None for every table name that is not a
\* key of the registry under case-insensitive comparison, whatever the keyword.
C1_RegistryGating ==
    (pc = "migrated" /\ ~InRegistry(arg_table)) => ret_repl = None

C1_Witness ==
    /\ pc = "migrated"
    /\ arg_keyword = KwTABLES \o SP
    /\ arg_table = J_1BBRANCH \o <<"X">>
    /\ ret_repl = None

\* C2: scan_unit has one finding for each match whose table is in the registry
\* and none for any other match, in the order of the matches; the example text
\* gives two findings, the TYPE TABLE OF one first and the SELECT one second.
C2_FindingPerObsoleteMatch ==
    /\ Len(findings) = Len(ObsoleteMatches)
    /\ \A k \in DOMAIN findings :
          /\ k <= Len(ObsoleteMatches)
          /\ findings[k].original_table = ObsoleteMatches[k].table
          /\ findings[k].original_statement
                = ObsoleteMatches[k].keyword \o ObsoleteMatches[k].table
    /\ \A i \in DOMAIN scanned :
          scanned[i].code = Some(ExampleCode) =>
             LET fs == scanned[i].j1bbranch_findings
             IN  /\ Len(fs) = 2
                 /\ StartsWith(fs[1].suggestion, KwTYPE \o SP \o KwTABLE \o SP \o KwOF
                                                   \o SP \o P_BusinessPlace \o NL)
                 /\ StartsWith(fs[2].suggestion, SelectStarFrom \o P_BusinessPlace \o NL)
    /\ (pc = "loop" /\ idx > 0) => scanned[idx].j1bbranch_findings = findings

C2_Witness ==
    /\ pc = "loop"
    /\ src = NestedCode
    /\ Len(matches) = 2
    /\ Len(findings) = 1
    /\ findings[1].original_table = J_1BBRANCH

\* C3: for a keyword that begins with SELECT once trimmed and upper-cased and
\* a table in the registry, the first line of the suggestion is exactly
\* "SELECT * FROM " followed by the replacement.
C3_SelectRewrite ==
    (pc = "migrated" /\ BeginsWithSelect(arg_keyword) /\ InRegistry(arg_table)) =>
        /\ ~ret_repl.isNone
        /\ FirstLine(ret_repl.val) = SelectStarFrom \o ReplacementOf(arg_table)

C3_Witness ==
    /\ pc = "migrated"
    /\ arg_keyword = <<"\n", "\t">> \o LowerKw(KwSELECT) \o SP \o J_1BBRANCH \o SP
                       \o KwFROM \o NL
    /\ arg_table = MixedName
    /\ FirstLine(ret_repl.val) = SelectStarFrom \o P_BusinessPlace

\* C4: for a keyword of the JOIN, TABLES, TYPE/LIKE TABLE OF or TYPE/LIKE
\* shape (or one whose word merely contains the obsolete name) and a table in
\* the registry, the rewritten statement is the keyword as it is, followed by
\* the replacement.
C4_PrefixKeptVerbatim ==
    (/\ pc = "migrated"
     /\ arg_keyword \in BareKeywords \cup TableOfKeywords \cup {ContainingKeyword}
     /\ InRegistry(arg_table)) =>
        /\ ~ret_repl.isNone
        /\ BeforeLastLine(ret_repl.val) = arg_keyword \o ReplacementOf(arg_table)

C4_Witness ==
    /\ pc = "migrated"
    /\ arg_keyword = ContainingKeyword
    /\ arg_table = MixedName
    /\ BeforeLastLine(ret_repl.val) = ContainingKeyword \o P_BusinessPlace

\* C5: every suggestion of a finding has exactly one newline, and the line
\* after it begins with "* TODO:".
C5_TwoLineSuggestion ==
    \A k \in DOMAIN findings :
        /\ Cardinality(NewlineOffsets(findings[k].suggestion)) = 1
        /\ StartsWith(LastLine(findings[k].suggestion), TodoMarker)

\* C6: line_of_offset(text, o) is the number of newlines at offsets < o, plus
\* one (1 for o = 0), and the line of a finding is that of its match's start.
C6_LineOfOffset ==
    /\ pc = "lined" =>
          /\ ret_line = Cardinality({o \in NewlineOffsets(arg_text) : o < arg_off}) + 1
          /\ arg_off = 0 => ret_line = 1
    /\ \A k \in DOMAIN findings :
          k <= Len(ObsoleteMatches) =>
             findings[k].line
               = Cardinality({o \in NewlineOffsets(src) : o < ObsoleteMatches[k].start}) + 1

C6_Witness ==
    /\ pc = "lined"
    /\ arg_text = MultiLineCode
    /\ arg_off = 17
    /\ ret_line = 3

C8_TableOfBeforeBareType ==
    /\ \A k \in DOMAIN matches :
          LET m == matches[k]
          IN  /\ m.keyword \o m.table = Slice(src, m.start, m.end)
              /\ TableOfAt(src, m.start) =>
                    /\ m.keyword = Slice(src, m.start, Tokens(src, m.start)[7])
                    /\ m.table = Slice(src, Tokens(src, m.start)[7], Tokens(src, m.start)[8])
    /\ (pc = "loop" /\ src = TypeTableOfName) => Len(matches) = 1
    /\ (pc = "loop" /\ idx > 0) =>
          \A p \in 0..Len(src) :
              (/\ TableOfAt(src, p)
               /\ p = 0 \/ ~IsWord(src[p])
               /\ ~\E k \in DOMAIN matches : matches[k].start < p /\ p < matches[k].end)
              => Cardinality({k \in DOMAIN matches : matches[k].start = p}) = 1

C8_Witness ==
    /\ pc = "loop"
    /\ src = KwTYPE \o SP \o KwTABLE \o SP \o KwOF \o SP \o MixedName
    /\ Len(matches) = 1
    /\ matches[1].table = MixedName
    /\ matches[1].keyword = KwTYPE \o SP \o KwTABLE \o SP \o KwOF \o SP

\* C9: the matches of one scan lie within the text, are not empty, start in
\* strictly ascending order and do not overlap.
C9_MatchesOrderedDisjoint ==
    /\ \A k \in DOMAIN matches :
          /\ 0 <= matches[k].start
          /\ matches[k].start < matches[k].end
          /\ matches[k].end <= Len(src)
    /\ \A j, k \in DOMAIN matches :
          j < k => /\ matches[j].start < matches[k].start
                   /\ matches[j].end <= matches[k].start
                   /\ NonOverlapping(SpanOf(matches[j]), SpanOf(matches[k]))

C9_Witness ==
    /\ pc = "loop"
    /\ src = MultiLineCode
    /\ Len(matches) = 2
    /\ matches[1].end < matches[2].start

\* C10: the handler returns the units that have a finding, in input order:
\* none with an empty findings list, none with a finding left out, and a unit
\* with empty or missing code is omitted.
C10_OnlyUnitsWithFindings ==
    pc = "returned" =>
        /\ Len(scanned) = Len(units)
        /\ \A k \in DOMAIN results : results[k].j1bbranch_findings # <<>>
        /\ \A i \in DOMAIN units :
              /\ scanned[i].pgm_name = units[i].pgm_name
              /\ scanned[i].j1bbranch_findings # <<>>
                    <=> \E k \in DOMAIN results : results[k] = scanned[i]
              /\ units[i].code \in {None, Some(<<>>)} =>
                    ~\E k \in DOMAIN results : results[k].pgm_name = units[i].pgm_name
        /\ \A j, k \in DOMAIN results : j < k => results[j].pgm_name < results[k].pgm_name
        /\ \A k \in DOMAIN results : \E i \in DOMAIN units : results[k] = scanned[i]

C10_Witness ==
    /\ pc = "returned"
    /\ Len(units) = 3
    /\ units[2].code = None
    /\ Len(results) = 2
    /\ results[1].pgm_name = 1
    /\ results[2].pgm_name = 3

=============================================================================
